---- MODULE Spec2Model ----
(***************************************************************************)
(* Model of the finite-difference helpers (finiteDifference.c) and of the  *)
(* MPI gateway routine (fwdTimeCpmlFor2dAw_openmpi_mex.c).                 *)
(*                                                                         *)
(* Doubles are modelled exactly: integers that exceed 32 bits are kept as  *)
(* little-endian sequences of base-10000 limbs, fractions as normalised    *)
(* pairs <<numerator, denominator>>.                                       *)
(***************************************************************************)
EXTENDS Integers, Sequences, FiniteSets, TLC

VARIABLES
    (* dCoef *)
    dcPc,           \* "idle" | "called" | "returned" | "error"
    order,          \* argument order
    type,           \* argument type (a C string)
    pA,             \* data of mxArray A, linear (column-major) storage
    pb,             \* data of mxArray b
    mexCalls,       \* log of mexCallMATLAB invocations
    lhs_mldivide,   \* the array dCoef returns
    (* diffOperator *)
    doPc,           \* "idle" | "called" | "returned" | "alloc_error" | "crash"
    ndims,          \* mxGetNumberOfDimensions(data)
    pDimsData,      \* mxGetDimensions(data), <<n1, n2, n3>> (n3 = 1 when 2-D)
    dataKind,       \* which test field the caller passed
    pData,          \* data of the input array, linear storage
    pCoeff,         \* data of coeff
    dist,           \* argument dist
    dim,            \* argument dim
    diffData,       \* the array diffOperator returns
    (* mexFunction: inputs, the same on every process *)
    numProcesses,   \* size of MPI_COMM_WORLD
    procs,          \* the ranks whose runs are followed
    collective,     \* "eager" | "rendezvous": when the root leaves a scatter
    nz, nx, nt,     \* mxGetDimensions(SOURCE_IN)
    boundary,       \* BOUNDARY_IN
    dz, dx, dt,     \* DZ_IN, DX_IN, DT_IN
    pVelocityModel, \* data of VM_IN
    pSource,        \* data of SOURCE_IN
    (* mexFunction: per process, indexed by rank *)
    pc,
    sendcounts_block_nx, displs_block_nx,
    sendcounts_band_nx, displs_band_nx,
    pVelocityModel_local, pSource_local,
    pxb_local, pzb_local,
    outOfBounds,    \* <<array, index>> used outside the array's extent
    stepsDone,      \* the time steps the process has carried out, in order
    DATA_OUT, SNAPSHOT_OUT, TASKID_OUT,
    (* the MPI runtime *)
    vmMsg,          \* velocity scatter: what the root packed for each rank
    srcMsg,         \* source scatter: what the root packed for each rank
    vmTaken,        \* ranks that completed the velocity scatter
    srcTaken,       \* ranks that completed the source scatter
    abortCalled     \* MPI_Abort was called on MPI_COMM_WORLD

dcVars == <<dcPc, order, type, pA, pb, mexCalls, lhs_mldivide>>
doVars == <<doPc, ndims, pDimsData, dataKind, pData, pCoeff, dist, dim, diffData>>

mpiInputs == <<numProcesses, procs, collective, nz, nx, nt, boundary, dz, dx, dt,
               pVelocityModel, pSource>>
mpiTables == <<sendcounts_block_nx, displs_block_nx,
               sendcounts_band_nx, displs_band_nx>>
mpiLocals == <<pVelocityModel_local, pSource_local>>
mpiDamping == <<pxb_local, pzb_local, outOfBounds>>
mpiOutputs == <<DATA_OUT, SNAPSHOT_OUT, TASKID_OUT>>
mpiRuntime == <<vmMsg, srcMsg, vmTaken, srcTaken, abortCalled>>
mpiVars == <<mpiInputs, pc, mpiTables, mpiLocals, mpiDamping, stepsDone, mpiOutputs,
             mpiRuntime>>

vars == <<dcVars, doVars, mpiVars>>

-----------------------------------------------------------------------------
(* Bounds of the model *)

MaxOrder == 6
MaxExtent == 4
MaxCoeff == 2
MaxProcs == 3
MaxNx == 5
MaxNt == 2
MaxBoundary == 2

-----------------------------------------------------------------------------
(* Exact arithmetic *)

Abs(x) == IF x < 0 THEN -x ELSE x

RECURSIVE GCD(_, _)
GCD(a, b) == IF b = 0 THEN a ELSE GCD(b, a % b)

\* a fraction n/d, d > 0, in lowest terms
RNorm(n, d) ==
    LET s == IF d < 0 THEN -1 ELSE 1
        g == GCD(Abs(n), Abs(d))
    IN  IF n = 0 THEN <<0, 1>> ELSE <<(s * n) \div g, (s * d) \div g>>

RInt(n) == <<n, 1>>
RAdd(x, y) == RNorm(x[1] * y[2] + y[1] * x[2], x[2] * y[2])
RSub(x, y) == RNorm(x[1] * y[2] - y[1] * x[2], x[2] * y[2])
RMul(x, y) == RNorm(x[1] * y[1], x[2] * y[2])
RDiv(x, y) == RNorm(x[1] * y[2], x[2] * y[1])

LimbBase == 100 * 100

\* limbs * m + carry, for a small multiplier m
RECURSIVE MulSmall(_, _, _)
MulSmall(limbs, m, carry) ==
    IF limbs = <<>>
    THEN IF carry = 0 THEN <<>>
         ELSE <<carry % LimbBase>> \o MulSmall(<<>>, m, carry \div LimbBase)
    ELSE LET p == Head(limbs) * m + carry
         IN  <<p % LimbBase>> \o MulSmall(Tail(limbs), m, p \div LimbBase)

\* pow(base, e) of math.h for a positive integer base and an integer e >= 0
RECURSIVE Pow(_, _)
Pow(base, e) == IF e = 0 THEN <<1>> ELSE MulSmall(Pow(base, e - 1), base, 0)

\* the integer a limb sequence stands for (used where it fits 32 bits)
RECURSIVE ToInt(_)
ToInt(limbs) ==
    IF limbs = <<>> THEN 0 ELSE Head(limbs) + LimbBase * ToInt(Tail(limbs))

RECURSIVE RSum(_, _, _)
\* f[lo] + f[lo+1] + ... + f[hi], added in that order
RSum(f, lo, hi) == IF lo > hi THEN RInt(0) ELSE RAdd(RSum(f, lo, hi - 1), f[hi])

-----------------------------------------------------------------------------
(* dCoef: finiteDifference.c *)

\* strcmp(a, b) == 0 exactly when the strings are equal
StrcmpNegated(a, b) == IF a = b THEN 1 ELSE 0
Strcmp(a, b) == IF a = b THEN 0 ELSE 1

\* linear index of pA written for loop variables j (outer) and i (inner)
PAIndexRowMajor(i, j, n) == i * n + j
PAIndex(i, j, n) == j * n + i

\* base of the power stored for loop variable j
BaseRegular(j) == j + 1
BaseStaggeredPlain(j) == j + 1
BaseStaggered(j) == 2 * (j + 1) - 1

\* exponent of the power stored for loop variable i
Exponent(i) == 2 * (i + 1) - 1

\* the array the two nested loops leave in pA: element PAIndex(i, j, n)
\* holds pow(base of j, Exponent(i))
FillA(n, staggered) ==
    [k \in 0..(n * n - 1) |->
        LET ij == CHOOSE p \in (0..(n - 1)) \X (0..(n - 1)) :
                      PAIndex(p[1], p[2], n) = k
        IN  Pow(IF staggered THEN BaseStaggered(ij[2]) ELSE BaseRegular(ij[2]),
                Exponent(ij[1]))]

\* mxCreateDoubleMatrix(n, 1) is zero-filled; pb[0] is then assigned
FirstRegular == <<1, 2>>
FirstStaggered == RInt(1)
FillB(n, first) == [k \in 0..(n - 1) |-> IF k = 0 THEN first ELSE RInt(0)]

\* MATLAB reads an m-by-n array column-major: element (r, c) is p[c * m + r]
MatEntry(p, r, c, m) == p[c * m + r]

IntMatrix(p, n) ==
    [r \in 0..(n - 1) |-> [c \in 0..(n - 1) |-> ToInt(MatEntry(p, r, c, n))]]

Minor(M, n, r, c) ==
    [i \in 0..(n - 2) |-> [j \in 0..(n - 2) |->
        M[IF i < r THEN i ELSE i + 1][IF j < c THEN j ELSE j + 1]]]

Sign(k) == IF k % 2 = 0 THEN 1 ELSE -1

RECURSIVE Det(_, _)
RECURSIVE DetTerms(_, _, _)
DetTerms(M, n, j) ==
    IF j < 0 THEN 0
    ELSE DetTerms(M, n, j - 1) + Sign(j) * M[0][j] * Det(Minor(M, n, 0, j), n - 1)
Det(M, n) == IF n = 0 THEN 1 ELSE DetTerms(M, n, n - 1)

Cofactor(M, n, i, j) == Sign(i + j) * Det(Minor(M, n, i, j), n - 1)

\* orders whose determinants fit the integers of the checker
ExactOrders == {1, 2, 3}

\* MATLAB's mldivide on a square system: x with A * x = b (Cramer's rule)
Solve(A, b, n) ==
    LET M == IntMatrix(A, n)
        d == Det(M, n)
    IN  [j \in 0..(n - 1) |->
            RDiv(RSum([i \in 0..(n - 1) |-> RMul(b[i], RInt(Cofactor(M, n, i, j)))],
                      0, n - 1),
                 RInt(d))]

\* what mexCallMATLAB(..., "mldivide") hands back for the system (A, b):
\* the solution of that system, computed where the arithmetic fits
Mldivide(A, b, n) ==
    [of |-> [A |-> A, b |-> b],
     x  |-> IF n \in ExactOrders THEN Solve(A, b, n) ELSE <<>>]

NoArray == [of |-> <<>>, x |-> <<>>]

Types == {"r", "s", "R", "S", "regular", "staggered", "", "rs", "c"}

DcInit ==
    /\ dcPc = "called"
    /\ order \in 1..MaxOrder
    /\ type \in Types
    /\ pA = <<>>
    /\ pb = <<>>
    /\ mexCalls = <<>>
    /\ lhs_mldivide = NoArray

DcIdle ==
    /\ dcPc = "idle"
    /\ order = 0
    /\ type = ""
    /\ pA = <<>>
    /\ pb = <<>>
    /\ mexCalls = <<>>
    /\ lhs_mldivide = NoArray

\* the whole of dCoef: build A and b, or leave through mexErrMsgTxt;
\* then hand the system to mldivide and return its result
dCoef ==
    /\ dcPc = "called"
    /\ IF Strcmp(type, "r") = 0
       THEN /\ pA' = FillA(order, FALSE)
            /\ pb' = FillB(order, FirstRegular)
            /\ mexCalls' = Append(mexCalls, [fn |-> "mldivide", A |-> pA', b |-> pb'])
            /\ lhs_mldivide' = Mldivide(pA', pb', order)
            /\ dcPc' = "returned"
       ELSE IF Strcmp(type, "s") = 0
       THEN /\ pA' = FillA(order, TRUE)
            /\ pb' = FillB(order, FirstStaggered)
            /\ mexCalls' = Append(mexCalls, [fn |-> "mldivide", A |-> pA', b |-> pb'])
            /\ lhs_mldivide' = Mldivide(pA', pb', order)
            /\ dcPc' = "returned"
       ELSE \* mexErrMsgTxt does not return to dCoef
            /\ pA' = [k \in 0..(order * order - 1) |-> <<>>]
            /\ pb' = [k \in 0..(order - 1) |-> RInt(0)]
            /\ mexCalls' = mexCalls
            /\ lhs_mldivide' = NoArray
            /\ dcPc' = "error"
    /\ UNCHANGED <<order, type>>
    /\ UNCHANGED <<doVars, mpiVars>>


-----------------------------------------------------------------------------
(* diffOperator: finiteDifference.c *)

NoDiff == [dims |-> <<>>, p |-> <<>>]

\* the fields the callers pass: integer samples, no two alike
InputData(kind, n) ==
    [k \in 0..(n - 1) |-> IF kind = "square" THEN RInt(k * k + 1)
                                             ELSE RInt(k * k * k - 7 * k)]

InputCoeff(n) == [k \in 0..(n - 1) |-> <<k + 2, k + 1>>]

\* if (dim < 1) dim = 1;
ClampDim(d) == IF d < 1 THEN 1 ELSE d

\* the branch of the if-else ladder the call takes
BranchOf(nd, d) ==
    IF nd <= 2
    THEN IF ClampDim(d) = 1 THEN "2d1" ELSE "2d2"
    ELSE IF ClampDim(d) = 1 THEN "3d1"
         ELSE IF ClampDim(d) = 2 THEN "3d2" ELSE "3d3"

\* the axis (1, 2 or 3) a branch walks with idx1 and idx2
AxisOf(br) == CASE br \in {"2d1", "3d1"} -> 1
                [] br \in {"2d2", "3d2"} -> 2
                [] br = "3d3" -> 3

\* l = 2 * order - 1
StencilWidth(ord) == 2 * ord - 1

\* dimensions of the array the branch creates
OutDims(br, n, l) ==
    CASE br = "2d1" -> <<n[1] - l, n[2], 1>>
      [] br = "2d2" -> <<n[1], n[2] - l, 1>>
      [] br = "3d1" -> <<n[1] - l, n[2], n[3]>>
      [] br = "3d2" -> <<n[1], n[2] - l, n[3]>>
      [] br = "3d3" -> <<n[1], n[2], n[3] - l>>

\* index of pDiffData written at loop variables i, j, k
WriteIndex(br, i, j, k, n, l) ==
    CASE br = "2d1" -> j * (n[1] - l) + i
      [] br = "2d2" -> j * n[1] + i
      [] br = "3d1" -> k * ((n[1] - l) * n[2]) + j * (n[1] - l) + i
      [] br = "3d2" -> k * (n[1] * (n[2] - l)) + j * n[1] + i
      [] br = "3d3" -> k * (n[1] * n[2]) + j * n[1] + i

\* index of pData read with idx standing on the walked axis and the other
\* loop variables as they are
ReadIndex(br, i, j, k, idx, n) ==
    CASE br = "2d1" -> j * n[1] + idx
      [] br = "2d2" -> idx * n[1] + i
      [] br = "3d1" -> k * (n[1] * n[2]) + j * n[1] + idx
      [] br = "3d2" -> k * (n[1] * n[2]) + idx * n[1] + i
      [] br = "3d3" -> idx * (n[1] * n[2]) + j * n[1] + i

\* first values of idx1 and idx2 in pass iOrder
Idx1Start(ord, iOrder) == ord + iOrder
Idx2StartShifted(ord, iOrder) == ord - iOrder
Idx2Start(ord, iOrder) == ord - (iOrder + 1)

\* number of values idx1 takes from Idx1Start up to extent - ord + iOrder
TripCount(extent, ord, iOrder) ==
    IF extent - ord + iOrder < Idx1Start(ord, iOrder) THEN 0
    ELSE extent - ord + iOrder - Idx1Start(ord, iOrder) + 1

\* position (counter i, j or k) on the walked axis of loop variables (i, j, k)
Walked(br, i, j, k) == <<i, j, k>>[AxisOf(br)]

\* one accumulation: pCoeff[iOrder] * (pData[.. idx1] - pData[.. idx2]) / dist
Term(br, i, j, k, iOrder, n, ord, data, coeff, d) ==
    LET pos  == Walked(br, i, j, k)
        idx1 == Idx1Start(ord, iOrder) + pos
        idx2 == Idx2Start(ord, iOrder) + pos
    IN  RDiv(RMul(coeff[iOrder],
                  RSub(data[ReadIndex(br, i, j, k, idx1, n)],
                       data[ReadIndex(br, i, j, k, idx2, n)])),
             RInt(d))

RECURSIVE Accumulate(_, _, _, _, _, _, _, _, _, _)
\* the value an element holds after passes 0..iOrder (it starts at zero)
Accumulate(br, i, j, k, iOrder, n, ord, data, coeff, d) ==
    IF iOrder < 0 THEN RInt(0)
    ELSE RAdd(Accumulate(br, i, j, k, iOrder - 1, n, ord, data, coeff, d),
              Term(br, i, j, k, iOrder, n, ord, data, coeff, d))

\* the loop variables (i, j, k) the loops of a branch run through
LoopBox(br, n, ord) ==
    LET ext == n[AxisOf(br)]
        cnt == TripCount(ext, ord, 0)
        rng(a) == IF a = AxisOf(br) THEN 0..(cnt - 1) ELSE 0..(n[a] - 1)
    IN  rng(1) \X rng(2) \X rng(3)

\* pDiffData when the loops are over
DiffLoops(br, n, ord, data, coeff, d) ==
    LET l    == StencilWidth(ord)
        o    == OutDims(br, n, l)
        box  == LoopBox(br, n, ord)
    IN  [w \in 0..(o[1] * o[2] * o[3] - 1) |->
            IF \E c \in box : WriteIndex(br, c[1], c[2], c[3], n, l) = w
            THEN LET c == CHOOSE c \in box : WriteIndex(br, c[1], c[2], c[3], n, l) = w
                 IN  Accumulate(br, c[1], c[2], c[3], ord - 1, n, ord, data, coeff, d)
            ELSE RInt(0)]

DoInit ==
    /\ doPc = "called"
    /\ ndims \in {2, 3}
    /\ pDimsData \in (1..MaxExtent) \X (1..MaxExtent) \X (1..MaxExtent)
    /\ ndims = 2 <=> pDimsData[3] = 1
    /\ dataKind \in {"square", "cubic"}
    /\ pData = InputData(dataKind, pDimsData[1] * pDimsData[2] * pDimsData[3])
    /\ pCoeff \in {InputCoeff(n) : n \in 1..MaxCoeff}
    /\ dist \in {1, 2}
    /\ dim \in 0..4
    /\ diffData = NoDiff

DoIdle ==
    /\ doPc = "idle"
    /\ ndims = 0
    /\ pDimsData = <<>>
    /\ dataKind = ""
    /\ pData = <<>>
    /\ pCoeff = <<>>
    /\ dist = 0
    /\ dim = 0
    /\ diffData = NoDiff

\* order = mxGetNumberOfElements(coeff)
CoeffOrder == Cardinality(DOMAIN pCoeff)

diffOperator ==
    /\ doPc = "called"
    /\ LET br  == BranchOf(ndims, dim)
           l   == StencilWidth(CoeffOrder)
           ext == pDimsData[AxisOf(br)]
       IN  IF ext - l >= 0
           THEN /\ diffData' = [dims |-> OutDims(br, pDimsData, l),
                                p    |-> DiffLoops(br, pDimsData, CoeffOrder,
                                                   pData, pCoeff, dist)]
                /\ doPc' = "returned"
           ELSE \* the extent handed to mxCreate* is negative (wraps when
                \* mwSize is unsigned): the allocation fails or the walk
                \* leaves the arrays
                /\ diffData' = NoDiff
                /\ doPc' \in {"alloc_error", "crash"}
    /\ UNCHANGED <<ndims, pDimsData, dataKind, pData, pCoeff, dist, dim>>
    /\ UNCHANGED <<dcVars, mpiVars>>

-----------------------------------------------------------------------------
(* mexFunction: fwdTimeCpmlFor2dAw_openmpi_mex.c *)

MASTER == 0

\* number of values an mxUINT8_CLASS element can hold
Uint8Values == 256

Zeros(n) == [k \in 0..(n - 1) |-> 0]

NoOutput == [dims |-> <<>>, p |-> <<>>]

\* the velocity model and the source field the caller passes: no two
\* elements of an array alike
VelocityAt(g) == 10 + g
SourceAt(g) == 1000 + g

\* if (numProcesses > nx)
TooManyTasksLax(np, n) == np > n + 1
TooManyTasks(np, n) == np > n

\* block_nx = (irank < rem_nx) ? (avg_nx + 1) : (avg_nx)
BlockNxInclusive(irank, avg_nx, rem_nx) == IF irank <= rem_nx THEN avg_nx + 1 ELSE avg_nx
BlockNx(irank, avg_nx, rem_nx) == IF irank < rem_nx THEN avg_nx + 1 ELSE avg_nx

RECURSIVE SumBlockNx(_, _, _, _)
\* sendcounts_block_nx[lo] + ... + sendcounts_block_nx[hi], summed by halves
SumBlockNx(lo, hi, avg_nx, rem_nx) ==
    IF lo > hi THEN 0
    ELSE IF lo = hi THEN BlockNx(lo, avg_nx, rem_nx)
    ELSE LET mid == (lo + hi) \div 2
         IN  SumBlockNx(lo, mid, avg_nx, rem_nx) + SumBlockNx(mid + 1, hi, avg_nx, rem_nx)

\* offset_block_nx when the loop reaches irank: the counts added so far
OffsetBlockNx(irank, avg_nx, rem_nx) == SumBlockNx(0, irank - 1, avg_nx, rem_nx)

\* the four tables the loop over irank fills
SendcountsBlock(np, n) ==
    [irank \in 0..(np - 1) |-> BlockNx(irank, n \div np, n % np)]
DisplsBlock(np, n) ==
    [irank \in 0..(np - 1) |-> OffsetBlockNx(irank, n \div np, n % np)]
SendcountsBand(np, n, z) ==
    [irank \in 0..(np - 1) |-> z * BlockNx(irank, n \div np, n % np)]
DisplsBand(np, n, z) ==
    [irank \in 0..(np - 1) |-> z * OffsetBlockNx(irank, n \div np, n % np)]

\* MPI datatypes, in units of one double: the displacements of the elements
\* in the order they travel, and the extent
MPI_DOUBLE == [map |-> <<0>>, extent |-> 1]

\* MPI_Type_vector(count, blocklength, stride, MPI_DOUBLE)
TypeVector(count, blocklength, stride) ==
    [map    |-> [m \in 1..(count * blocklength) |->
                    ((m - 1) \div blocklength) * stride + ((m - 1) % blocklength)],
     extent |-> (count - 1) * stride + blocklength]

\* MPI_Type_create_resized(t, 0, extent)
TypeCreateResized(t, extent) == [map |-> t.map, extent |-> extent]

\* type_ztPlane_resized, the send type of the source scatter
SendTypePlaneUnstrided(t, z, x) == TypeCreateResized(TypeVector(t, z, z), z)
SendTypePlane(t, z, x) == TypeCreateResized(TypeVector(t, z, z * x), z)

\* type_ztxBlock_resized, the receive type of the source scatter
RecvTypeBlock(t, z, recvcount) == TypeCreateResized(TypeVector(t, z, z * recvcount), z)

\* index in the buffer of the m-th double of `count` elements of type t
\* that start displ extents into the buffer
TypeIndex(m, displ, t) ==
    (displ + ((m - 1) \div Len(t.map))) * t.extent + t.map[((m - 1) % Len(t.map)) + 1]

\* the doubles a send of `count` elements of type t takes from buf
Pack(buf, count, displ, t) ==
    [m \in 1..(count * Len(t.map)) |-> buf[TypeIndex(m, displ, t)]]

\* buf after a receive of `count` elements of type t carrying data
Unpack(buf, count, t, data) ==
    [x \in DOMAIN buf |->
        IF \E m \in 1..Len(data) : TypeIndex(m, 0, t) = x
        THEN data[CHOOSE m \in 1..Len(data) : TypeIndex(m, 0, t) = x]
        ELSE buf[x]]

\* recvcount_block_nx = sendcounts_block_nx[taskId]
RecvcountBlockNx(w) == sendcounts_block_nx[w][w]

\* first byte in memory of the int v
FirstByte(v, byteOrder) ==
    IF byteOrder = "little" THEN v % Uint8Values
    ELSE (v \div (Uint8Values * Uint8Values * Uint8Values)) % Uint8Values

MpiIdle ==
    /\ numProcesses = 0
    /\ procs = {}
    /\ collective = ""
    /\ nz = 0 /\ nx = 0 /\ nt = 0
    /\ boundary = 0
    /\ dz = 0 /\ dx = 0 /\ dt = 0
    /\ pVelocityModel = <<>>
    /\ pSource = <<>>
    /\ pxb_local = <<>> /\ pzb_local = <<>>
    /\ outOfBounds = <<>>
    /\ pc = <<>>
    /\ sendcounts_block_nx = <<>> /\ displs_block_nx = <<>>
    /\ sendcounts_band_nx = <<>> /\ displs_band_nx = <<>>
    /\ pVelocityModel_local = <<>> /\ pSource_local = <<>>
    /\ stepsDone = <<>>
    /\ DATA_OUT = <<>> /\ SNAPSHOT_OUT = <<>> /\ TASKID_OUT = <<>>
    /\ vmMsg = <<>> /\ srcMsg = <<>>
    /\ vmTaken = {} /\ srcTaken = {}
    /\ abortCalled = FALSE

\* every process at line 101: inputs loaded, MPI not yet initialised
MpiStart ==
    /\ dz \in {3} /\ dx \in {2} /\ dt \in {1}
    /\ pxb_local = [w \in procs |-> <<>>]
    /\ pzb_local = [w \in procs |-> <<>>]
    /\ outOfBounds = [w \in procs |-> {}]
    /\ pVelocityModel = [g \in 0..(nz * nx - 1) |-> VelocityAt(g)]
    /\ pSource = [g \in 0..(nz * nx * nt - 1) |-> SourceAt(g)]
    /\ pc = [w \in procs |-> "start"]
    /\ sendcounts_block_nx = [w \in procs |-> <<>>]
    /\ displs_block_nx = [w \in procs |-> <<>>]
    /\ sendcounts_band_nx = [w \in procs |-> <<>>]
    /\ displs_band_nx = [w \in procs |-> <<>>]
    /\ pVelocityModel_local = [w \in procs |-> <<>>]
    /\ pSource_local = [w \in procs |-> <<>>]
    /\ stepsDone = [w \in procs |-> <<>>]
    /\ DATA_OUT = [w \in procs |-> NoOutput]
    /\ SNAPSHOT_OUT = [w \in procs |-> NoOutput]
    /\ TASKID_OUT = [w \in procs |-> NoOutput]
    /\ vmMsg = <<>> /\ srcMsg = <<>>
    /\ vmTaken = {} /\ srcTaken = {}
    /\ abortCalled = FALSE

\* runs small enough to follow every process
MpiInitSmall ==
    /\ numProcesses \in 1..MaxProcs
    /\ procs = 0..(numProcesses - 1)
    /\ collective = "eager"
    /\ boundary \in 0..MaxBoundary
    /\ nz \in {2 * boundary + 1, 2 * boundary + 2}
    /\ nx \in (2 * boundary + 1)..MaxNx
    /\ nt \in 1..MaxNt
    /\ MpiStart

\* a run with more ranks than a uint8 holds: the master and the last rank
\* are followed, the ranks between run the same program
MpiInitWide ==
    /\ numProcesses = Uint8Values + 1
    /\ procs = {MASTER, numProcesses - 1}
    /\ collective = "eager"
    /\ nz = 1 /\ nx = numProcesses /\ nt = 1
    /\ boundary = 0
    /\ MpiStart

MpiInit == MpiInitSmall \/ MpiInitWide

\* runs on a one-row grid without padding, under either behaviour of the
\* collectives
MpiInitBlocking ==
    /\ numProcesses \in 1..MaxProcs
    /\ procs = 0..(numProcesses - 1)
    /\ collective \in {"eager", "rendezvous"}
    /\ boundary = 0
    /\ nz = 1
    /\ nx \in 1..MaxNx
    /\ nt = 1
    /\ MpiStart

\* lines 101-139: MPI_Init, size and rank, the task-count check, the tables
Setup(w) ==
    /\ pc[w] = "start"
    /\ IF TooManyTasks(numProcesses, nx)
       THEN \* MPI_Abort does not return
            /\ pc' = [pc EXCEPT ![w] = "aborted"]
            /\ abortCalled' = TRUE
            /\ UNCHANGED mpiTables
       ELSE /\ sendcounts_block_nx' =
                [sendcounts_block_nx EXCEPT ![w] = SendcountsBlock(numProcesses, nx)]
            /\ displs_block_nx' =
                [displs_block_nx EXCEPT ![w] = DisplsBlock(numProcesses, nx)]
            /\ sendcounts_band_nx' =
                [sendcounts_band_nx EXCEPT ![w] = SendcountsBand(numProcesses, nx, nz)]
            /\ displs_band_nx' =
                [displs_band_nx EXCEPT ![w] = DisplsBand(numProcesses, nx, nz)]
            /\ pc' = [pc EXCEPT ![w] = "tabled"]
            /\ UNCHANGED abortCalled
    /\ UNCHANGED <<mpiInputs, mpiLocals, mpiDamping, stepsDone, mpiOutputs,
                   vmMsg, srcMsg, vmTaken, srcTaken>>
    /\ UNCHANGED <<dcVars, doVars>>

\* the runtime ends every process of the communicator after MPI_Abort
Killed(w) ==
    /\ abortCalled
    /\ pc[w] \notin {"aborted", "returned"}
    /\ pc' = [pc EXCEPT ![w] = "aborted"]
    /\ UNCHANGED <<mpiInputs, mpiTables, mpiLocals, mpiDamping, stepsDone, mpiOutputs,
                   mpiRuntime>>
    /\ UNCHANGED <<dcVars, doVars>>

\* lines 141-160 on the master: the send type, the receive type, and the
\* root's part of MPI_Scatterv of the velocity model
ScatterVmRoot(w) ==
    /\ w = MASTER
    /\ pc[w] = "tabled"
    /\ vmMsg' = [r \in 0..(numProcesses - 1) |->
                    Pack(pVelocityModel, sendcounts_band_nx[w][r],
                         displs_band_nx[w][r], MPI_DOUBLE)]
    /\ pVelocityModel_local' =
           [pVelocityModel_local EXCEPT ![w] =
               Unpack(Zeros(nz * RecvcountBlockNx(w)), nz * RecvcountBlockNx(w),
                      MPI_DOUBLE, vmMsg'[w])]
    /\ vmTaken' = vmTaken \cup {w}
    /\ pc' = [pc EXCEPT ![w] = "vm_posted"]
    /\ UNCHANGED <<mpiInputs, mpiTables, pSource_local, mpiDamping, stepsDone, mpiOutputs,
                   srcMsg, srcTaken, abortCalled>>
    /\ UNCHANGED <<dcVars, doVars>>

\* the root returns from the scatter: at once when the runtime buffers the
\* messages, after every followed process has its part when it does not
ScatterVmRootLeave(w) ==
    /\ w = MASTER
    /\ pc[w] = "vm_posted"
    /\ collective = "eager" \/ procs \subseteq vmTaken
    /\ pc' = [pc EXCEPT ![w] = "vm_done"]
    /\ UNCHANGED <<mpiInputs, mpiTables, mpiLocals, mpiDamping, stepsDone, mpiOutputs,
                   mpiRuntime>>
    /\ UNCHANGED <<dcVars, doVars>>

\* lines 151-160 on the other processes: blocked until the root has sent
ScatterVmSkipped(w) ==
    /\ w # MASTER
    /\ pc[w] = "tabled"
    /\ pVelocityModel_local' =
           [pVelocityModel_local EXCEPT ![w] = Zeros(nz * RecvcountBlockNx(w))]
    /\ pc' = [pc EXCEPT ![w] = "vm_done"]
    /\ UNCHANGED <<mpiInputs, mpiTables, pSource_local, mpiDamping, stepsDone, mpiOutputs,
                   mpiRuntime>>
    /\ UNCHANGED <<dcVars, doVars>>
ScatterVm(w) ==
    /\ w # MASTER
    /\ pc[w] = "tabled"
    /\ vmMsg # <<>>
    /\ pVelocityModel_local' =
           [pVelocityModel_local EXCEPT ![w] =
               Unpack(Zeros(nz * RecvcountBlockNx(w)), nz * RecvcountBlockNx(w),
                      MPI_DOUBLE, vmMsg[w])]
    /\ vmTaken' = vmTaken \cup {w}
    /\ pc' = [pc EXCEPT ![w] = "vm_done"]
    /\ UNCHANGED <<mpiInputs, mpiTables, pSource_local, mpiDamping, stepsDone, mpiOutputs,
                   vmMsg, srcMsg, srcTaken, abortCalled>>
    /\ UNCHANGED <<dcVars, doVars>>

\* lines 168-171 on the master
ScatterSrcRoot(w) ==
    /\ w = MASTER
    /\ pc[w] = "vm_done"
    /\ srcMsg' = [r \in 0..(numProcesses - 1) |->
                     Pack(pSource, sendcounts_block_nx[w][r],
                          displs_block_nx[w][r], SendTypePlane(nt, nz, nx))]
    /\ pSource_local' =
           [pSource_local EXCEPT ![w] =
               Unpack(Zeros(nz * RecvcountBlockNx(w) * nt), RecvcountBlockNx(w),
                      RecvTypeBlock(nt, nz, RecvcountBlockNx(w)), srcMsg'[w])]
    /\ srcTaken' = srcTaken \cup {w}
    /\ pc' = [pc EXCEPT ![w] = "src_posted"]
    /\ UNCHANGED <<mpiInputs, mpiTables, pVelocityModel_local, mpiDamping, stepsDone,
                   mpiOutputs,
                   vmMsg, vmTaken, abortCalled>>
    /\ UNCHANGED <<dcVars, doVars>>

ScatterSrcRootLeave(w) ==
    /\ w = MASTER
    /\ pc[w] = "src_posted"
    /\ collective = "eager" \/ procs \subseteq srcTaken
    /\ pc' = [pc EXCEPT ![w] = "src_done"]
    /\ UNCHANGED <<mpiInputs, mpiTables, mpiLocals, mpiDamping, stepsDone, mpiOutputs,
                   mpiRuntime>>
    /\ UNCHANGED <<dcVars, doVars>>

\* lines 168-171 on the other processes
ScatterSrc(w) ==
    /\ w # MASTER
    /\ pc[w] = "vm_done"
    /\ srcMsg # <<>>
    /\ pSource_local' =
           [pSource_local EXCEPT ![w] =
               Unpack(Zeros(nz * RecvcountBlockNx(w) * nt), RecvcountBlockNx(w),
                      RecvTypeBlock(nt, nz, RecvcountBlockNx(w)), srcMsg[w])]
    /\ srcTaken' = srcTaken \cup {w}
    /\ pc' = [pc EXCEPT ![w] = "src_done"]
    /\ UNCHANGED <<mpiInputs, mpiTables, pVelocityModel_local, mpiDamping, stepsDone,
                   mpiOutputs,
                   vmMsg, srcMsg, vmTaken, abortCalled>>
    /\ UNCHANGED <<dcVars, doVars>>

\* dampPml, element by element: d0 = -(3 v)/(2 L) log(R), d = d0 (u/L) (u/L).
\* log(R) is negative and irrational: a damping value is kept as the
\* fraction q with d = q * (-log(R))
DampPml(u, v, L) ==
    [x \in DOMAIN u |->
        RMul(RMul(RDiv(RInt(3 * v[x]), RInt(2 * L)), RDiv(RInt(u[x]), RInt(L))),
             RDiv(RInt(u[x]), RInt(L)))]

\* exp(-d * dt) for d = q * (-log(R)) is R^(q * dt): a decay factor is kept
\* as the exponent q * dt, and is exactly 1 when that is zero
Decay(d, step) == [x \in DOMAIN d |-> RMul(d[x], RInt(step))]

\* memcpy(dst + start, src, n doubles), the part that lands inside dst
Memcpy(dst, start, src) ==
    [x \in DOMAIN dst |->
        IF x - start \in DOMAIN src THEN src[x - start] ELSE dst[x]]

\* the n doubles of arr from start on (zero stands in for what lies outside)
Slice(arr, start, n) ==
    [x \in 0..(n - 1) |-> IF start + x \in DOMAIN arr THEN arr[start + x] ELSE 0]

\* block_nx_dampPml of the left profile (both branches of lines 184-223)
LeftBlock(o, c, b) == IF o + c <= b THEN c ELSE b - o

\* block_nx_dampPml and the first local column of the right profile
RightBlock(o, c, b, n) == IF o >= n - b THEN c ELSE (o + c) - (n - b)
RightStartZero(o, c, b, n) == 0
RightStart(o, c, b, n) == IF o >= n - b THEN 0 ELSE n - b - o

\* does the process build the left / the right profile (lines 182, 225, 247)
BuildsLeft(o, c, b, n) == o < b
BuildsRight(o, c, b, n) == o + c > n - b

\* puDampLeft_local and puDampRight_local
LeftDistance(o, b, z, blk, step) ==
    [x \in 0..(z * blk - 1) |-> (b - o - (x \div z)) * step]
RightDistance(o, b, n, z, blk, step) ==
    [x \in 0..(z * blk - 1) |->
        IF o >= n - b THEN (o - (n - b) + (x \div z) + 1) * step
                      ELSE ((x \div z) + 1) * step]

\* pxDamp_local when line 296 is reached
XDamp(vm, o, c, b, n, z, step) ==
    LET lblk   == LeftBlock(o, c, b)
        rblk   == RightBlock(o, c, b, n)
        rstart == z * RightStart(o, c, b, n)
        left   == DampPml(LeftDistance(o, b, z, lblk, step),
                          Slice(vm, 0, z * lblk), b * step)
        right  == DampPml(RightDistance(o, b, n, z, rblk, step),
                          Slice(vm, rstart, z * rblk), b * step)
        zero   == [x \in 0..(z * c - 1) |-> RInt(0)]
        afterLeft == IF BuildsLeft(o, c, b, n) THEN Memcpy(zero, 0, left) ELSE zero
    IN  IF BuildsRight(o, c, b, n) THEN Memcpy(afterLeft, rstart, right)
        ELSE afterLeft

\* pzDamp_local when line 323 is reached
ZDampTop(vm, c, b, z, step) ==
    LET uDown == [x \in 0..(b * c - 1) |-> ((x % b) + 1) * step]
        vDown == [x \in 0..(b * c - 1) |-> vm[(x \div b) * z + (z - b + (x % b))]]
        zDown == DampPml(uDown, vDown, b * step)
    IN  [x \in 0..(z * c - 1) |->
            IF x % z < b THEN zDown[(x \div z) * b + (x % z)]
            ELSE RInt(0)]
ZDamp(vm, c, b, z, step) ==
    LET uDown == [x \in 0..(b * c - 1) |-> ((x % b) + 1) * step]
        vDown == [x \in 0..(b * c - 1) |-> vm[(x \div b) * z + (z - b + (x % b))]]
        zDown == DampPml(uDown, vDown, b * step)
    IN  [x \in 0..(z * c - 1) |->
            IF x % z >= z - b THEN zDown[(x \div z) * b + (x % z) - (z - b)]
            ELSE RInt(0)]

\* every <<array, index, extent>> lines 180-337 use
Accesses(o, c, b, n, z) ==
    LET lblk   == LeftBlock(o, c, b)
        rblk   == RightBlock(o, c, b, n)
        rstart == z * RightStart(o, c, b, n)
        range(name, from, len, ext) == {<<name, x, ext>> : x \in from..(from + len - 1)}
        left   == range("puDampLeft_local", 0, z * lblk, z * lblk)
                    \cup range("pvDampLeft_local", 0, z * lblk, z * lblk)
                    \cup range("pVelocityModel_local", 0, z * lblk, z * c)
                    \cup range("pxDamp_local", 0, z * lblk, z * c)
        right  == range("puDampRight_local", 0, z * rblk, z * rblk)
                    \cup range("pvDampRight_local", 0, z * rblk, z * rblk)
                    \cup range("pVelocityModel_local", rstart, z * rblk, z * c)
                    \cup range("pxDamp_local", rstart, z * rblk, z * c)
        decayX == range("pxDamp_local", 0, z * c, z * c)
                    \cup range("pxb_local", 0, z * c, z * c)
        down   == range("puDampDown_local", 0, b * c, b * c)
                    \cup range("pvDampDown_local", 0, b * c, b * c)
                    \cup {<<"pVelocityModel_local", j * z + (z - b + i), z * c>> :
                             j \in 0..(c - 1), i \in 0..(b - 1)}
                    \cup {<<"pzDamp_local", j * z + i, z * c>> :
                             j \in 0..(c - 1), i \in (z - b)..(z - 1)}
                    \cup {<<"pzDampDown_local", j * b + i - (z - b), b * c>> :
                             j \in 0..(c - 1), i \in (z - b)..(z - 1)}
        decayZ == range("pzDamp_local", 0, z * c, z * c)
                    \cup range("pzb_local", 0, z * c, z * c)
        printed(name) == {<<name, x, z * c>> : x \in {0, 1, z - 1, z, z * c - 1}}
    IN  (IF BuildsLeft(o, c, b, n) THEN left ELSE {})
          \cup (IF BuildsRight(o, c, b, n) THEN right ELSE {})
          \cup decayX \cup down \cup decayZ
          \cup printed("pxb_local") \cup printed("pzb_local")

\* lines 180-337: the x-axis and z-axis damping profiles and decay factors
DampProfiles(w) ==
    /\ pc[w] = "src_done"
    /\ LET o == displs_block_nx[w][w]
           c == sendcounts_block_nx[w][w]
       IN  /\ pxb_local' = [pxb_local EXCEPT ![w] =
                   Decay(XDamp(pVelocityModel_local[w], o, c, boundary, nx, nz, dx), dt)]
           /\ pzb_local' = [pzb_local EXCEPT ![w] =
                   Decay(ZDamp(pVelocityModel_local[w], c, boundary, nz, dz), dt)]
           /\ outOfBounds' = [outOfBounds EXCEPT ![w] =
                   {<<a[1], a[2]>> : a \in {a \in Accesses(o, c, boundary, nx, nz) :
                                               a[2] < 0 \/ a[2] >= a[3]}}]
    /\ pc' = [pc EXCEPT ![w] = "damped"]
    /\ UNCHANGED <<mpiInputs, mpiTables, mpiLocals, stepsDone, mpiOutputs, mpiRuntime>>
    /\ UNCHANGED <<dcVars, doVars>>

\* lines 345-362: the datatypes and the arrays are freed, MPI_Finalize
Finalize(w) ==
    /\ pc[w] = "damped"
    /\ pc' = [pc EXCEPT ![w] = "finalized"]
    /\ UNCHANGED <<mpiInputs, mpiTables, mpiLocals, mpiDamping, stepsDone, mpiOutputs,
                   mpiRuntime>>
    /\ UNCHANGED <<dcVars, doVars>>

\* lines 364-391: the three outputs. The rank is stored through an int
\* pointer into a one-byte uint8 element: the element keeps the first byte
\* of the int as the host lays it out
Output(w) ==
    /\ pc[w] = "finalized"
    /\ DATA_OUT' = [DATA_OUT EXCEPT ![w] =
           IF w = MASTER THEN [dims |-> <<nx, nt>>, p |-> Zeros(nx * nt)]
                         ELSE [dims |-> <<0, 0>>, p |-> <<>>]]
    /\ SNAPSHOT_OUT' = [SNAPSHOT_OUT EXCEPT ![w] =
           IF w = MASTER THEN [dims |-> <<nz, nx, nt>>, p |-> Zeros(nz * nx * nt)]
                         ELSE [dims |-> <<0, 0>>, p |-> <<>>]]
    /\ \E byteOrder \in {"little", "big"} :
           TASKID_OUT' = [TASKID_OUT EXCEPT ![w] =
               [dims |-> <<1, 1>>, class |-> "uint8", byteOrder |-> byteOrder,
                p |-> <<FirstByte(w, byteOrder)>>]]
    /\ pc' = [pc EXCEPT ![w] = "returned"]
    /\ UNCHANGED <<mpiInputs, mpiTables, mpiLocals, mpiDamping, stepsDone, mpiRuntime>>
    /\ UNCHANGED <<dcVars, doVars>>

-----------------------------------------------------------------------------
(* Specifications *)

InitCoef == DcInit /\ DoIdle /\ MpiIdle
NextCoef == dCoef
SpecCoef == InitCoef /\ [][NextCoef]_vars

InitDiff == DoInit /\ DcIdle /\ MpiIdle
NextDiff == diffOperator
SpecDiff == InitDiff /\ [][NextDiff]_vars

Init == MpiInit /\ DcIdle /\ DoIdle
Next ==
    \E w \in procs :
        \/ Setup(w)
        \/ Killed(w)
        \/ ScatterVmRoot(w)
        \/ ScatterVmRootLeave(w)
        \/ ScatterVm(w)
        \/ ScatterSrcRoot(w)
        \/ ScatterSrcRootLeave(w)
        \/ ScatterSrc(w)
        \/ DampProfiles(w)
        \/ Finalize(w)
        \/ Output(w)
Spec == Init /\ [][Next]_vars

\* every process is a running operating-system process: as long as some
\* process can take a step, a step is taken
InitBlocking == MpiInitBlocking /\ DcIdle /\ DoIdle
SpecBlocking == InitBlocking /\ [][Next]_vars /\ WF_vars(Next)

-----------------------------------------------------------------------------
(* Claims about dCoef *)

\* row r of the n-by-n system handed to mldivide, as integers
SystemRow(p, r, n) == [c \in 1..n |-> ToInt(MatEntry(p, r, c - 1, n))]

\* C5: for every order n in 1..6 the system handed to the solver has entry
\* (j+1)^(2(i+1)-1) in row i, column j and right-hand side [1/2, 0, ..., 0]
\* for the regular type, entry (2(j+1)-1)^(2(i+1)-1) and right-hand side
\* [1, 0, ..., 0] for the staggered type; the array returned is the solver's
\* answer for exactly that system, and (where the arithmetic is carried out)
\* it satisfies A * c = b.
C5_SystemBuiltAndSolved ==
    dcPc = "returned" =>
        LET n == order
            claimedBase(j) == IF type = "r" THEN j + 1 ELSE 2 * (j + 1) - 1
            claimedFirst == IF type = "r" THEN <<1, 2>> ELSE <<1, 1>>
            call == mexCalls[1]
        IN  /\ Len(mexCalls) = 1
            /\ call.fn = "mldivide"
            /\ DOMAIN call.A = 0..(n * n - 1)
            /\ \A i \in 0..(n - 1) : \A j \in 0..(n - 1) :
                   MatEntry(call.A, i, j, n) = Pow(claimedBase(j), 2 * (i + 1) - 1)
            /\ call.b = [k \in 0..(n - 1) |-> IF k = 0 THEN claimedFirst ELSE <<0, 1>>]
            /\ lhs_mldivide.of = [A |-> call.A, b |-> call.b]
            /\ n \in ExactOrders =>
                   \A i \in 0..(n - 1) :
                       RSum([j \in 0..(n - 1) |->
                                RMul(RInt(ToInt(MatEntry(call.A, i, j, n))),
                                     lhs_mldivide.x[j])], 0, n - 1) = call.b[i]

C5_Witness == dcPc = "returned" /\ order = 6 /\ type = "s"

\* C6 as stated: order 2, staggered: the system is [[1,1],[1,27]] c = [1,0]
\* and the coefficients are [27/26, -1/26].
C6_AsStated ==
    (dcPc = "returned" /\ order = 2 /\ type = "s") =>
        /\ SystemRow(mexCalls[1].A, 0, 2) = <<1, 1>>
        /\ SystemRow(mexCalls[1].A, 1, 2) = <<1, 27>>
        /\ lhs_mldivide.x = [j \in 0..1 |-> IF j = 0 THEN <<27, 26>> ELSE <<-1, 26>>]

\* C6 amended: order 2, staggered: the system is [[1,3],[1,27]] c = [1,0]
\* and the coefficients are [9/8, -1/24].
C6_Order2Staggered ==
    (dcPc = "returned" /\ order = 2 /\ type = "s") =>
        /\ SystemRow(mexCalls[1].A, 0, 2) = <<1, 3>>
        /\ SystemRow(mexCalls[1].A, 1, 2) = <<1, 27>>
        /\ mexCalls[1].b = [k \in 0..1 |-> IF k = 0 THEN <<1, 1>> ELSE <<0, 1>>]
        /\ lhs_mldivide.x = [j \in 0..1 |-> IF j = 0 THEN <<9, 8>> ELSE <<-1, 24>>]

C6_Witness == dcPc = "returned" /\ order = 2 /\ type = "s" /\ Len(mexCalls) = 1

\* C7: a type other than "r" and "s" ends in the error outcome with no solver
\* call and no coefficient array; a recognised type never ends in the error.
C7_UnknownTypeFails ==
    (dcPc \in {"returned", "error"}) =>
        IF type \notin {"r", "s"}
        THEN dcPc = "error" /\ mexCalls = <<>> /\ lhs_mldivide = NoArray
        ELSE dcPc = "returned" /\ lhs_mldivide # NoArray

C7_Witness == dcPc = "error" /\ type = "regular" /\ mexCalls = <<>>

-----------------------------------------------------------------------------
(* Claims about diffOperator *)

\* element (c1, c2, c3) of an array of dimensions d stored column-major
Elem(p, d, c1, c2, c3) == p[c1 + c2 * d[1] + c3 * d[1] * d[2]]

\* coordinates c with the coordinate on axis a moved to v
OnAxis(c, a, v) == [x \in 1..3 |-> IF x = a THEN v ELSE c[x]]

RECURSIVE StencilSum(_, _, _, _)
\* sum over k in 0..kmax of coeff[k] * (data[p+order+k] - data[p+order-1-k]) / dist
\* at output coordinates c, differenced along axis a
StencilSum(c, a, kmax, ord) ==
    IF kmax < 0 THEN <<0, 1>>
    ELSE LET hi == OnAxis(c, a, c[a] + ord + kmax)
             lo == OnAxis(c, a, c[a] + ord - 1 - kmax)
         IN  RAdd(StencilSum(c, a, kmax - 1, ord),
                  RDiv(RMul(pCoeff[kmax],
                            RSub(Elem(pData, pDimsData, hi[1], hi[2], hi[3]),
                                 Elem(pData, pDimsData, lo[1], lo[2], lo[3]))),
                       <<dist, 1>>))

ValidAxis == dim \in 1..ndims
DoFinished == doPc \notin {"idle", "called"}

\* C3: for 2-D and 3-D data, a valid axis and 2*order-1 < extent, the result
\* has extent - (2*order-1) along the axis and the input's extents elsewhere,
\* each of its points is the sum over k of
\* coeff[k] * (data[p+order+k] - data[p+order-1-k]) / dist, and the input
\* array is what it was at the call.
C3_Derivative ==
    (DoFinished /\ ValidAxis /\ 2 * CoeffOrder - 1 < pDimsData[dim]) =>
        LET ord == CoeffOrder
            o   == [a \in 1..3 |-> IF a = dim THEN pDimsData[a] - (2 * ord - 1)
                                              ELSE pDimsData[a]]
        IN  /\ doPc = "returned"
            /\ diffData.dims = o
            /\ DOMAIN diffData.p = 0..(o[1] * o[2] * o[3] - 1)
            /\ \A c \in (0..(o[1] - 1)) \X (0..(o[2] - 1)) \X (0..(o[3] - 1)) :
                   Elem(diffData.p, o, c[1], c[2], c[3]) = StencilSum(c, dim, ord - 1, ord)
            /\ pData = InputData(dataKind, pDimsData[1] * pDimsData[2] * pDimsData[3])

C3_Witness ==
    /\ doPc = "returned"
    /\ ndims = 3 /\ dim = 2 /\ CoeffOrder = 2
    /\ pDimsData = <<2, 4, 3>>
    /\ diffData.dims = <<2, 1, 3>>

\* C4 as stated: whenever 2*order-1 >= extent along the differenced axis
\* (equality included) the call fails and produces no derivative array.
C4_AsStated ==
    (DoFinished /\ ValidAxis /\ 2 * CoeffOrder - 1 >= pDimsData[dim]) =>
        (doPc # "returned" /\ diffData = NoDiff)

\* the state C4 fails in: the stencil is exactly as wide as the axis and the
\* call returns an array of extent 0
C4_EmptyResult ==
    /\ doPc = "returned" /\ ValidAxis
    /\ 2 * CoeffOrder - 1 = pDimsData[dim]
    /\ diffData.dims[dim] = 0

-----------------------------------------------------------------------------
(* Claims about mexFunction *)

Tabled(w) == sendcounts_block_nx[w] # <<>>

\* C1: for nx >= numWorkers >= 1 the table has count[i] = nx/numWorkers + 1
\* for i < nx mod numWorkers and nx/numWorkers otherwise, offset[0] = 0 and
\* offset[i+1] = offset[i] + count[i]; the column ranges are non-empty,
\* ordered by rank, pairwise disjoint, cover exactly [0, nx), and any two
\* counts differ by at most 1.
C1_Partition ==
    \A w \in procs : Tabled(w) =>
        LET np     == numProcesses
            count  == sendcounts_block_nx[w]
            offset == displs_block_nx[w]
        IN  /\ nx >= np /\ np >= 1
            /\ DOMAIN count = 0..(np - 1) /\ DOMAIN offset = 0..(np - 1)
            /\ \A i \in 0..(np - 1) :
                   count[i] = (nx \div np) + (IF i < nx % np THEN 1 ELSE 0)
            /\ offset[0] = 0
            /\ \A i \in 0..(np - 2) : offset[i + 1] = offset[i] + count[i]
            /\ \A i \in 0..(np - 1) : count[i] >= 1
            /\ \A i \in 0..(np - 1) : \A j \in 0..(np - 1) :
                   /\ i < j => offset[i] + count[i] <= offset[j]
                   /\ count[i] - count[j] <= 1
            /\ \A g \in 0..(nx - 1) :
                   Cardinality({i \in 0..(np - 1) :
                                   offset[i] <= g /\ g < offset[i] + count[i]}) = 1
            /\ \A i \in 0..(np - 1) : offset[i] + count[i] <= nx

C1_Witness ==
    /\ numProcesses = 3 /\ nx = 5
    /\ pc[2] = "tabled"
    /\ sendcounts_block_nx[2] = [i \in 0..2 |-> IF i < 2 THEN 2 ELSE 1]
    /\ displs_block_nx[2] = [i \in 0..2 |-> 2 * i]

\* the values the message of a scatter to rank r carries
Carried(msg, r) == {msg[r][m] : m \in 1..Len(msg[r])}

\* every element of the global array travels in exactly one place of exactly
\* one message: no message repeats a value, no two messages share one, and
\* together they carry the whole array
DeliveredOnce(msg, global) ==
    /\ \A r \in DOMAIN msg : Cardinality(Carried(msg, r)) = Len(msg[r])
    /\ \A r \in DOMAIN msg : \A q \in DOMAIN msg :
           r < q => Carried(msg, r) \cap Carried(msg, q) = {}
    /\ UNION {Carried(msg, r) : r \in DOMAIN msg} = {global[g] : g \in DOMAIN global}

\* C2: after the scatters worker i holds, for every row z, local column j
\* and time index k, local velocity [z + j*nz] = global velocity
\* [z + (offset[i]+j)*nz] and local source [z + j*nz + k*nz*count[i]] =
\* global source [z + (offset[i]+j)*nz + k*nz*nx]; every global element is
\* delivered to exactly one worker.
C2_ScattersPreservePartition ==
    /\ \A w \in procs :
          LET count  == sendcounts_block_nx[w][w]
              offset == displs_block_nx[w][w]
          IN  /\ w \in vmTaken =>
                    /\ DOMAIN pVelocityModel_local[w] = 0..(nz * count - 1)
                    /\ \A z \in 0..(nz - 1) : \A j \in 0..(count - 1) :
                           pVelocityModel_local[w][z + j * nz] =
                               pVelocityModel[z + (offset + j) * nz]
              /\ w \in srcTaken =>
                    /\ DOMAIN pSource_local[w] = 0..(nz * count * nt - 1)
                    /\ \A z \in 0..(nz - 1) : \A j \in 0..(count - 1) :
                       \A k \in 0..(nt - 1) :
                           pSource_local[w][z + j * nz + k * nz * count] =
                               pSource[z + (offset + j) * nz + k * nz * nx]
    /\ vmMsg # <<>> => DeliveredOnce(vmMsg, pVelocityModel)
    /\ srcMsg # <<>> => DeliveredOnce(srcMsg, pSource)

C2_Witness ==
    /\ numProcesses = 3 /\ nx = 5 /\ nz = 2 /\ nt = 2
    /\ srcTaken = procs
    /\ pSource_local[1][5] = pSource[15]
    /\ pVelocityModel_local[2][1] = pVelocityModel[9]

\* C8: with more workers than columns every worker takes the abort path
\* before a table is computed, a scatter is entered or an output is made;
\* with numWorkers <= nx the abort path is never taken.
C8_TooManyWorkersAbort ==
    /\ numProcesses > nx =>
          /\ \A w \in procs :
                /\ pc[w] \in {"start", "aborted"}
                /\ ~Tabled(w)
                /\ DATA_OUT[w] = NoOutput /\ SNAPSHOT_OUT[w] = NoOutput
                /\ TASKID_OUT[w] = NoOutput
          /\ vmMsg = <<>> /\ srcMsg = <<>>
          /\ vmTaken = {} /\ srcTaken = {}
    /\ numProcesses <= nx =>
          /\ ~abortCalled
          /\ \A w \in procs : pc[w] # "aborted"

C8_Witness ==
    /\ numProcesses = 3 /\ nx = 2
    /\ abortCalled
    /\ \A w \in procs : pc[w] = "aborted"

\* C9 as stated: a worker reaches Finished (and the output after it) only
\* after carrying out the nt time steps 0, 1, ..., nt-1 in that order.
C9_AsStated ==
    \A w \in procs :
        pc[w] \in {"finalized", "returned"} =>
            stepsDone[w] = [k \in 1..nt |-> k - 1]

\* the state C9 fails in: a worker has returned with two time steps to
\* carry out and none carried out
C9_NoStepTaken ==
    \E w \in procs : pc[w] = "returned" /\ nt = 2 /\ stepsDone[w] = <<>>

\* C10 as stated: at return rank 0 holds a trace of extent nx x nt and a
\* snapshot of extent nz x nx x nt, every other worker holds 0 x 0
\* placeholders, and every worker's third output is its own rank (read here
\* on hosts that store the low byte first).
C10_AsStated ==
    \A w \in procs : pc[w] = "returned" =>
        /\ w = MASTER => /\ DATA_OUT[w].dims = <<nx, nt>>
                         /\ SNAPSHOT_OUT[w].dims = <<nz, nx, nt>>
        /\ w # MASTER => /\ DATA_OUT[w].dims = <<0, 0>>
                         /\ SNAPSHOT_OUT[w].dims = <<0, 0>>
        /\ TASKID_OUT[w].byteOrder = "little" => TASKID_OUT[w].p = <<w>>

\* the state C10 fails in: rank 256 has returned and its uint8 output,
\* written low byte first, reads 0
C10_RankTruncated ==
    /\ (Uint8Values \in procs) /\ pc[Uint8Values] = "returned"
    /\ TASKID_OUT[Uint8Values].byteOrder = "little"
    /\ TASKID_OUT[Uint8Values].p = <<0>>

-----------------------------------------------------------------------------
(* Claims about the damping profiles *)

\* the decay exponent claimed for distance u, velocity v and layer width L:
\* (3 v)/(2 L) * (u/L)^2 * dt, in units of -log(R)
ClaimedExponent(u, v, L) == RNorm(3 * v * u * u * dt, 2 * L * L * L)

Damped(w) == pc[w] \in {"damped", "finalized", "returned"}

\* C11: for numWorkers <= nx and 0 <= boundary < nx/2, on every worker the
\* x-axis decay of local column j, global column g = offset + j, comes from
\* distance (boundary - g)*dx if g < boundary, from distance
\* (g - (nx-boundary) + 1)*dx if g >= nx-boundary, and is exactly 1 (exponent
\* zero) otherwise, each time with the velocity of that same global column;
\* so the value at (z, g) does not depend on how the columns are split.
C11_XDampingByGlobalColumn ==
    \A w \in procs : Damped(w) =>
        LET o == displs_block_nx[w][w]
            c == sendcounts_block_nx[w][w]
        IN  /\ numProcesses <= nx /\ 2 * boundary < nx
            /\ DOMAIN pxb_local[w] = 0..(nz * c - 1)
            /\ \A j \in 0..(c - 1) : \A z \in 0..(nz - 1) :
                   LET g == o + j
                       v == pVelocityModel[z + g * nz]
                   IN  pxb_local[w][j * nz + z] =
                           IF g < boundary
                           THEN ClaimedExponent((boundary - g) * dx, v, boundary * dx)
                           ELSE IF g >= nx - boundary
                           THEN ClaimedExponent((g - (nx - boundary) + 1) * dx, v,
                                                boundary * dx)
                           ELSE <<0, 1>>

\* one block overlaps both padding regions: damped at both ends, free between
C11_Witness ==
    /\ numProcesses = 1 /\ nx = 5 /\ boundary = 2 /\ nz = 5
    /\ pc[0] = "damped"
    /\ pxb_local[0][0] = ClaimedExponent(2 * dx, pVelocityModel[0], 2 * dx)
    /\ pxb_local[0][2 * nz] = <<0, 1>>
    /\ pxb_local[0][4 * nz + 1] = ClaimedExponent(2 * dx, pVelocityModel[4 * nz + 1], 2 * dx)

\* C12: on every worker and local column j the z-axis decay is exactly 1
\* (exponent zero) in rows 0 <= r < nz-boundary, and in row
\* r = nz-boundary+i, 0 <= i < boundary, comes from distance (i+1)*dz and the
\* velocity at that same (r, j); the worker's offset enters only through the
\* velocity column it holds.
C12_ZDampingBottomOnly ==
    \A w \in procs : Damped(w) =>
        LET o == displs_block_nx[w][w]
            c == sendcounts_block_nx[w][w]
        IN  /\ DOMAIN pzb_local[w] = 0..(nz * c - 1)
            /\ \A j \in 0..(c - 1) : \A r \in 0..(nz - 1) :
                   pzb_local[w][j * nz + r] =
                       IF r < nz - boundary THEN <<0, 1>>
                       ELSE ClaimedExponent((r - (nz - boundary) + 1) * dz,
                                            pVelocityModel_local[w][j * nz + r],
                                            boundary * dz)
            /\ \A j \in 0..(c - 1) : \A r \in 0..(nz - 1) :
                   pVelocityModel_local[w][j * nz + r] = pVelocityModel[r + (o + j) * nz]

\* the last worker of three, two rows of padding under four rows of grid
C12_Witness ==
    /\ numProcesses = 3 /\ nx = 5 /\ boundary = 2 /\ nz = 6
    /\ pc[2] = "damped"
    /\ pzb_local[2][3] = <<0, 1>>
    /\ pzb_local[2][4] = ClaimedExponent(dz, pVelocityModel[4 + 4 * nz], 2 * dz)
    /\ pzb_local[2][5] = ClaimedExponent(2 * dz, pVelocityModel[5 + 4 * nz], 2 * dz)

-----------------------------------------------------------------------------
(* Claims about the collectives *)

AllReturned == \A w \in procs : pc[w] = "returned"

\* C13: with numWorkers <= nx every worker enters the velocity scatter and
\* then the source scatter, none passes the setup of the damping without
\* both, and under every interleaving every worker eventually returns.
C13_NoStall ==
    /\ [](\A w \in procs :
             /\ w \in srcTaken => w \in vmTaken
             /\ Damped(w) => w \in srcTaken)
    /\ (numProcesses <= nx) ~> AllReturned

\* three workers, the root held in each scatter until all have their part
C13_Witness ==
    /\ collective = "rendezvous" /\ numProcesses = 3 /\ nx = 4
    /\ vmTaken = procs /\ srcTaken = procs
    /\ AllReturned

-----------------------------------------------------------------------------
(* Claims about the axis argument and the local indices *)

\* C14 as stated: an axis index outside 1..ndims (0, 3 on 2-D data, 4 on 3-D
\* data) yields no derivative along some other axis.
C14_AsStated ==
    (DoFinished /\ ~ValidAxis) => diffData = NoDiff

\* the state C14 fails in: axis 3 asked of 2-D data, and the second axis
\* comes back differenced
C14_OtherAxisDifferenced ==
    /\ doPc = "returned"
    /\ ndims = 2 /\ dim = 3
    /\ pDimsData = <<2, 4, 1>> /\ CoeffOrder = 1
    /\ diffData.dims = <<2, 3, 1>>
    /\ diffData.p[0] = RDiv(RMul(pCoeff[0], RSub(pData[2], pData[0])), RInt(dist))

\* C15 as stated: under numWorkers <= nx and 0 <= boundary < min(nz, nx)/2
\* every index a worker uses on a local array between the scatters and the
\* shutdown lies inside the array, for every block size, and the left and
\* right padding writes into the x-damping array do not overlap.
C15_AsStated ==
    \A w \in procs :
        (Damped(w) /\ numProcesses <= nx /\ 2 * boundary < nz /\ 2 * boundary < nx) =>
            LET o == displs_block_nx[w][w]
                c == sendcounts_block_nx[w][w]
            IN  /\ outOfBounds[w] = {}
                /\ (BuildsLeft(o, c, boundary, nx) /\ BuildsRight(o, c, boundary, nx)) =>
                       LeftBlock(o, c, boundary) <= RightStart(o, c, boundary, nx)

\* the state C15 fails in: a block of one column, three rows, and the
\* element after the last of each decay-factor array read
C15_ReadPastBlock ==
    \E w \in procs :
        /\ Damped(w)
        /\ numProcesses = 3 /\ nx = 3 /\ nz = 3 /\ boundary = 1
        /\ sendcounts_block_nx[w][w] = 1
        /\ outOfBounds[w] = {<<"pxb_local", 3>>, <<"pzb_local", 3>>}

====
